---- MODULE Spec2Model ----
(***************************************************************************)
(* A model of class multiplets (src/multiplets.py): the constructor, which *)
(* partitions the persons into groups, init_edges, which builds the edges  *)
(* and the hyperedges, and find_multiplets, which selects a set of         *)
(* hyperedges with the CP-SAT model or with the linear sum assignment.     *)
(*                                                                         *)
(* A dataframe is a sequence of rows.  A person is a row [id, group,       *)
(* value]; a null identifier is Null and the null group label is           *)
(* NoneLabel.  Group labels are integers, compared as Python compares the  *)
(* labels when it sorts them.  An attribute of the session that has not    *)
(* been assigned yet is the empty sequence, an assigned one is a sequence  *)
(* of length one holding the value.                                        *)
(*                                                                         *)
(* The calls explored on a session are the constructor, then any number of *)
(* calls of init_edges, then one call of find_multiplets.                  *)
(***************************************************************************)
EXTENDS Integers, Sequences, FiniteSets, TLC

\* ------------------------------------------------------------------------
\* Bounds of the explored inputs
\* ------------------------------------------------------------------------
\* largest number of persons in a generated dataframe
MaxN == 3
\* generated values are 10*v for v in 1..MaxVal
MaxVal == 2
\* largest number of groups in the dataframes with one person per group
MaxManyGroups == 11

\* ------------------------------------------------------------------------
\* Values of the program
\* ------------------------------------------------------------------------
Null == 0
NoneLabel == 0
NoRowid == 0 - 1
\* the limit on the number of groups when check_too_big is set
MaxParts == 10
\* the summand of the default penalty
PenaltySlack == 3

Unset == << >>
Some(x) == << x >>
Get(o) == o[1]
IsSet(o) == Len(o) = 1

\* ------------------------------------------------------------------------
\* Sequences
\* ------------------------------------------------------------------------
Range(s) == {s[i] : i \in 1..Len(s)}

Reverse(s) == [i \in 1..Len(s) |-> s[Len(s) + 1 - i]]

\* the sum of s[lo..hi]
RECURSIVE SumFromTo(_, _, _)
SumFromTo(s, lo, hi) ==
  IF lo > hi THEN 0
  ELSE IF lo = hi THEN s[lo]
  ELSE LET mid == (lo + hi) \div 2
       IN SumFromTo(s, lo, mid) + SumFromTo(s, mid + 1, hi)

SeqSum(s) == SumFromTo(s, 1, Len(s))

SeqMax(s) == CHOOSE x \in Range(s) : \A y \in Range(s) : y <= x

\* the concatenation of ss[lo..hi]
RECURSIVE ConcatFromTo(_, _, _)
ConcatFromTo(ss, lo, hi) ==
  IF lo > hi THEN << >>
  ELSE IF lo = hi THEN ss[lo]
  ELSE LET mid == (lo + hi) \div 2
       IN ConcatFromTo(ss, lo, mid) \o ConcatFromTo(ss, mid + 1, hi)

Concat(ss) == ConcatFromTo(ss, 1, Len(ss))

Abs(x) == IF x < 0 THEN 0 - x ELSE x

\* the distinct elements of s in the order of their first occurrence
RECURSIVE FirstOccurrences(_)
FirstOccurrences(s) ==
  IF s = << >> THEN << >>
  ELSE LET init == FirstOccurrences(SubSeq(s, 1, Len(s) - 1))
           x == s[Len(s)]
       IN IF x \in Range(init) THEN init ELSE Append(init, x)

\* sorted() of Python on a list of integers
RECURSIVE Sorted(_)
Sorted(s) ==
  IF s = << >> THEN << >>
  ELSE LET m == CHOOSE x \in Range(s) : \A y \in Range(s) : x <= y
           rest == SelectSeq(s, LAMBDA y : y # m)
       IN << m >> \o Sorted(rest)

\* ------------------------------------------------------------------------
\* The dataframes given to the constructor
\* ------------------------------------------------------------------------
Columns == {"id", "group", "value"}
IdNames == {"id", "pid"}
GroupNames == {"group", "grp"}

Person(i, g, v) == [id |-> i, group |-> g, value |-> v]

\* the dataframe of the first example of init_edges
DfSix == << Person(1, 1, 10), Person(2, 1, 20), Person(3, 2, 30),
            Person(4, 2, 40), Person(5, 3, 50), Person(6, 3, 60) >>
\* the dataframe of the second example of init_edges
DfFour == << Person(1, 1, 10), Person(2, 1, 20), Person(3, 2, 30),
             Person(4, 2, 40) >>
\* two groups of two persons where the values differ by 20, 18 and 20
\* (and by 58)
DfTie == << Person(1, 1, 0), Person(2, 1, 38), Person(3, 2, 20),
            Person(4, 2, 58) >>

Labels == {NoneLabel, 1, 2}
Values == {10 * v : v \in 1..MaxVal}

\* the dataframes of n persons with identifiers 1..n, the groups 1..k one
\* after the other, the value 10 for the first person and any values for
\* the others
BlockDfs ==
  UNION {
    {[i \in 1..n |-> Person(i, g[i], v[i])] :
        g \in {f \in [1..n -> 1..n] :
                 /\ n > 0 => f[1] = 1
                 /\ \A i \in 1..(n - 1) : f[i + 1] \in {f[i], f[i] + 1}},
        v \in {f \in [1..n -> Values] : n > 0 => f[1] = 10}}
    : n \in 0..MaxN}

\* the dataframes of n persons with identifiers n..1, any labels (the null
\* label included) in any order, and the values 10 and 20 in turn
MixedDfs ==
  UNION {
    {[i \in 1..n |-> Person(n + 1 - i, g[i], 10 * (1 + (i % 2)))] :
        g \in [1..n -> Labels]}
    : n \in 1..MaxN}

\* the dataframes of n persons where the identifiers are not unique or
\* one of them is null
BadIdDfs ==
  UNION {
    {[i \in 1..n |-> Person(IF i = n THEN last ELSE i, g[i], 10)] :
        g \in [1..n -> {1, 2}], last \in {Null, 1}}
    : n \in 2..3}

\* the dataframes of n groups of one person each
ManyGroupsDfs ==
  {[i \in 1..n |-> Person(i, n + 1 - i, 10)] : n \in (MaxParts - 1)..MaxManyGroups}

Dfs == {DfSix, DfFour, DfTie} \cup BlockDfs \cup MixedDfs \cup BadIdDfs
         \cup ManyGroupsDfs

\* ------------------------------------------------------------------------
\* The session
\* ------------------------------------------------------------------------
VARIABLES
  init_OK,           \* self.init_OK
  vertices,          \* self.vertices: the rows of each group
  part_keys,         \* self.part_keys: the ordered group labels
  was_col_warning,   \* self._was_col_warning
  col_warnings,      \* how many times _col has printed its warning
  edges,             \* self.edges: the rows of each pair of groups
  hyperedges,        \* self.hyperedges
  multiplets,        \* self.multiplets
  model_type,        \* self.model_type
  status,            \* self.status
  raised,            \* the exception raised by the last call
  warned,            \* the warnings printed by the last call
  call               \* the last call and its arguments

vars == << init_OK, vertices, part_keys, was_col_warning, col_warnings,
           edges, hyperedges,
           multiplets, model_type, status, raised, warned, call >>

NoCall == [op |-> "none"]

Init ==
  /\ init_OK = FALSE
  /\ vertices = << >>
  /\ part_keys = << >>
  /\ was_col_warning = FALSE
  /\ col_warnings = 0
  /\ edges = Unset
  /\ hyperedges = Unset
  /\ multiplets = Unset
  /\ model_type = "none"
  /\ status = "none"
  /\ raised = "none"
  /\ warned = {}
  /\ call = NoCall

\* ------------------------------------------------------------------------
\* multiplets.__init__
\* ------------------------------------------------------------------------
\* df.select(id).height != df.select(id).unique().drop_nulls().height
IdsNotUnique(df) ==
  Len(df) # Cardinality({df[i].id : i \in 1..Len(df)} \ {Null})

\* the keys of df.partition_by(group, as_dict=True), in the order of their
\* first occurrence
PartitionKeys(df) == FirstOccurrences([i \in 1..Len(df) |-> df[i].group])

\* the part of df.partition_by(group, include_key=False) for one key, with
\* the row index added when with_rowid
Partition(df, key, with_rowid) ==
  LET rows == SelectSeq(df, LAMBDA r : r.group = key)
  IN [i \in 1..Len(rows) |->
        [id |-> rows[i].id, value |-> rows[i].value,
         rowid |-> IF with_rowid THEN i - 1 ELSE NoRowid]]

\* PartKeys without the move of the null label to the end
PartKeysNoneNotLast(t) == Sorted(t)

\* the ordered list of the keys: sorted, the null label last
PartKeys(t) ==
  IF NoneLabel \in Range(t)
  THEN Sorted(SelectSeq(t, LAMBDA x : x # NoneLabel)) \o << NoneLabel >>
  ELSE Sorted(t)

ConstructError(df, id, group, check_too_big) ==
  \/ Len(df) = 0
  \/ id \notin Columns
  \/ group \notin Columns
  \/ IdsNotUnique(df)
  \/ Len(PartKeys(PartitionKeys(df))) = 1
  \/ (Len(PartKeys(PartitionKeys(df))) > MaxParts /\ check_too_big)

Construct(df, id, group, check_too_big) ==
  /\ call = NoCall
  /\ call' = [op |-> "__init__", df |-> df, id |-> id, group |-> group,
              check_too_big |-> check_too_big]
  /\ LET partitioned == /\ Len(df) # 0
                        /\ id \in Columns
                        /\ group \in Columns
                        /\ ~IdsNotUnique(df)
         keys == PartKeys(PartitionKeys(df))
     IN /\ part_keys' = IF partitioned THEN keys ELSE << >>
        /\ vertices' = IF partitioned
                       THEN [k \in Range(keys) |->
                               Partition(df, k,
                                 ~ConstructError(df, id, group, check_too_big)
                                 /\ Len(keys) = 2)]
                       ELSE << >>
        /\ init_OK' = ~ConstructError(df, id, group, check_too_big)
        /\ raised' = IF ConstructError(df, id, group, check_too_big)
                     THEN "multipletsError" ELSE "none"
  /\ was_col_warning' = FALSE
  /\ col_warnings' = 0
  /\ warned' = {}
  /\ UNCHANGED << edges, hyperedges, multiplets, model_type, status >>

\* ------------------------------------------------------------------------
\* multiplets._col and multiplets.init_edges
\* ------------------------------------------------------------------------
\* The argument weight: an expression (the absolute difference of value_A
\* and value_B), the name of a column (value_B), a number, or a value of
\* another type.
WeightExpr == [type |-> "Expr", v |-> 0]
WeightStr == [type |-> "str", v |-> 0]
WeightInt(x) == [type |-> "int", v |-> x]
WeightOther == [type |-> "other", v |-> 0]

\* The argument filter: None or a number.
NoFilter == [given |-> FALSE, x |-> 0]
FilterLE(x) == [given |-> TRUE, x |-> x]

\* the expression _col returns
col(strorexpr) ==
  IF strorexpr.type = "Expr" THEN [fn |-> "absdiff", v |-> 0]
  ELSE IF strorexpr.type = "str" THEN [fn |-> "value_B", v |-> 0]
  ELSE IF strorexpr.type = "int" THEN [fn |-> "lit", v |-> strorexpr.v]
  ELSE [fn |-> "lit", v |-> 0]

\* _col warns whatever the flag is
colWarnsEveryTime(strorexpr, flag) ==
  strorexpr.type \notin {"Expr", "str", "int"}

\* _col prints its warning
colWarns(strorexpr, flag) ==
  strorexpr.type \notin {"Expr", "str", "int"} /\ ~flag

\* the value of the expression on a row of the cross join
Eval(e, A, B) ==
  IF e.fn = "absdiff" THEN Abs(A.value - B.value)
  ELSE IF e.fn = "value_B" THEN B.value
  ELSE e.v

\* The order of the rows of a join is left to the engine.
EngineOrders == {"keep", "reverse"}
Permute(ord, rows) == IF ord = "reverse" THEN Reverse(rows) ELSE rows

\* left.join(right, how='cross')
CrossJoin(left, right) ==
  Concat([a \in 1..Len(left) |->
            [b \in 1..Len(right) |-> [A |-> left[a], B |-> right[b]]]])

Passes(filter, w) == filter.given => w <= filter.x

\* self.edges[i,j]
EdgeTable(i, j, weight, filter, ord) ==
  LET cross == Permute(ord, CrossJoin(vertices[part_keys[i + 1]],
                                      vertices[part_keys[j + 1]]))
      weighted == [n \in 1..Len(cross) |->
                     [a |-> cross[n].A.id, b |-> cross[n].B.id,
                      ra |-> cross[n].A.rowid, rb |-> cross[n].B.rowid,
                      w |-> Eval(col(weight), cross[n].A, cross[n].B)]]
  IN SelectSeq(weighted, LAMBDA r : Passes(filter, r.w))

\* the pairs (i,j) in the order of the two nested loops
GroupPairs(k) ==
  Concat([i \in 1..(k - 1) |-> [n \in 1..(k - i) |-> << i - 1, i - 1 + n >>]])

AllEdges(weight, filter, ord) ==
  LET pairs == GroupPairs(Len(part_keys))
  IN [p \in Range(pairs) |-> EdgeTable(p[1], p[2], weight, filter, ord)]

\* JoinOn with the first column only, whatever i
JoinOnFirstColumn(i, j) == << i >>

\* [id_i, id_j][:i+1]
JoinOn(i, j) == SubSeq(<< i, j >>, 1, IF i + 1 < 2 THEN i + 1 ELSE 2)

\* a row of an edge table as a row of the table of hyperedges
FirstRow(r, k) ==
  [id |-> << r.a, r.b >>,
   rowid |-> IF k = 2 THEN << r.ra, r.rb >> ELSE << >>,
   w |-> << r.w >>]

\* the identifier of group c in a row of the edge table of groups i and j
EdgeId(r, i, j, c) == IF c = i THEN r.a ELSE r.b

\* left.join(self.edges[i,j], on=..., how='inner'): every pair of a left
\* row and a right row that agree on the columns of `on`; a column of the
\* right table that is not in `on` is added
InnerJoin(left, right, i, j, on, ord) ==
  LET matches(l) ==
        SelectSeq(right, LAMBDA r :
          \A n \in 1..Len(on) : l.id[on[n] + 1] = EdgeId(r, i, j, on[n]))
      joined(l) ==
        LET m == matches(l)
        IN [n \in 1..Len(m) |->
              [id |-> IF j \in Range(on) THEN l.id ELSE Append(l.id, m[n].b),
               rowid |-> l.rowid,
               w |-> Append(l.w, m[n].w)]]
  IN Permute(ord, Concat([n \in 1..Len(left) |-> joined(left[n])]))

\* the loop of the joins from pair n on, where joined is the dataframe
\* after the first n-1 pairs (a join of a dataframe without rows has no
\* rows)
RECURSIVE JoinLoop(_, _, _, _, _)
JoinLoop(n, joined, pairs, edge, ord) ==
  IF n > Len(pairs) \/ Len(joined) = 0 THEN joined
  ELSE JoinLoop(n + 1,
                InnerJoin(joined, edge[pairs[n]], pairs[n][1], pairs[n][2],
                          JoinOn(pairs[n][1], pairs[n][2]), ord),
                pairs, edge, ord)

\* self.hyperedges after the two nested loops
Joined(pairs, edge, ord) ==
  JoinLoop(2,
           [m \in 1..Len(edge[pairs[1]]) |->
              FirstRow(edge[pairs[1]][m], Len(part_keys))],
           pairs, edge, ord)

\* pl.sum_horizontal and pl.max_horizontal
Aggregators == {"sum", "max"}
agg_horizontal(agg, ws) == IF agg = "sum" THEN SeqSum(ws) ELSE SeqMax(ws)

\* the order of two rows by the columns id_0, id_1, ...
RECURSIVE LexLess(_, _)
LexLess(x, y) ==
  IF x = << >> \/ y = << >> THEN FALSE
  ELSE IF Head(x) # Head(y) THEN Head(x) < Head(y)
  ELSE LexLess(Tail(x), Tail(y))

\* SortById without the sort
NotSorted(rows) == rows

\* DataFrame.sort on the columns id_0, id_1, ... (a stable sort)
RECURSIVE SortById(_)
SortById(rows) ==
  IF rows = << >> THEN << >>
  ELSE LET sorted == SortById(SubSeq(rows, 1, Len(rows) - 1))
           x == rows[Len(rows)]
           before == SelectSeq(sorted, LAMBDA r : ~LexLess(x.id, r.id))
           after == SelectSeq(sorted, LAMBDA r : LexLess(x.id, r.id))
       IN before \o << x >> \o after

\* the final select of init_edges
SelectHyperedge(r, agg) ==
  [id |-> r.id, rowid |-> r.rowid, weight |-> agg_horizontal(agg, r.w)]

\* self.hyperedges as init_edges leaves it
BuildHyperedges(edge, agg, ord) ==
  LET pairs == GroupPairs(Len(part_keys))
      joined == Joined(pairs, edge, ord)
  IN SortById([n \in 1..Len(joined) |-> SelectHyperedge(joined[n], agg)])

\* The calls self._col(weight) of the loop over the pairs of groups, one
\* for each of the n pairs: the number of warnings printed and the flag
\* after the last call.
\* (The n calls are split in two halves, the second starting with the flag
\* the first leaves.)
RECURSIVE colLoop(_, _, _)
colLoop(strorexpr, flag, n) ==
  IF n = 0 THEN [printed |-> 0, flag |-> flag]
  ELSE IF n = 1
  THEN [printed |-> IF colWarns(strorexpr, flag) THEN 1 ELSE 0,
        flag |-> flag \/ colWarns(strorexpr, flag)]
  ELSE LET first == colLoop(strorexpr, flag, n \div 2)
           rest == colLoop(strorexpr, first.flag, n - (n \div 2))
       IN [printed |-> first.printed + rest.printed, flag |-> rest.flag]

InitEdges(weight, filter, agg, ord) ==
  /\ call.op \in {"__init__", "init_edges"}
  /\ call' = [op |-> "init_edges", weight |-> weight, filter |-> filter,
              agg |-> agg]
  /\ IF ~init_OK
     THEN /\ raised' = "multipletsError"
          /\ warned' = {}
          /\ UNCHANGED << edges, hyperedges, was_col_warning, col_warnings >>
     ELSE /\ raised' = "none"
          /\ LET edge == AllEdges(weight, filter, ord)
             IN /\ edges' = Some(edge)
                /\ hyperedges' = Some(BuildHyperedges(edge, agg, ord))
          /\ LET conv == colLoop(weight, was_col_warning,
                                  Len(GroupPairs(Len(part_keys))))
             IN /\ warned' = IF conv.printed > 0 THEN {"_col"} ELSE {}
                /\ was_col_warning' = conv.flag
                /\ col_warnings' = col_warnings + conv.printed
  /\ UNCHANGED << init_OK, vertices, part_keys, multiplets, model_type,
                  status >>

\* ------------------------------------------------------------------------
\* multiplets.find_multiplets
\* ------------------------------------------------------------------------
\* the columns of self.hyperedges that can hold the weight
WeightColumns == {"_weight"}

\* df.select(weight).max().item(): None for a dataframe without rows
MaxWeight(df) == IF df = << >> THEN Unset
                 ELSE Some(SeqMax([n \in 1..Len(df) |-> df[n].weight]))

\* int(df.select(weight).max().item()+3)
DefaultPenalty(df) == Get(MaxWeight(df)) + PenaltySlack

\* --- algorithm CPSAT ---
\* the rows of a set of rows that hold an identifier
RowsWith(df, X, v) == {n \in X : v \in Range(df[n].id)}

IdsOf(df) == UNION {Range(df[n].id) : n \in 1..Len(df)}

\* Constraints for the identifiers of column id_0 only
ConstraintsFirstColumn(df, X) ==
  \A v \in {df[n].id[1] : n \in 1..Len(df)} :
    Cardinality({n \in X : df[n].id[1] = v}) <= 1

\* the constraints of the model: for every identifier, the sum of x over
\* the rows that hold it is at most 1
Constraints(df, X) ==
  \A v \in IdsOf(df) : Cardinality(RowsWith(df, X, v)) <= 1

RECURSIVE SetSum(_, _)
SetSum(f, X) == IF X = {} THEN 0
                ELSE LET n == CHOOSE m \in X : TRUE
                     IN f[n] + SetSum(f, X \ {n})

\* sum((penalty-w)*x[i])
Objective(df, penalty, X) ==
  SetSum([n \in 1..Len(df) |-> penalty - df[n].weight], X)

FeasibleSets(df) == {X \in SUBSET (1..Len(df)) : Constraints(df, X)}

OptimalSets(df, penalty) ==
  LET F == FeasibleSets(df)
  IN {X \in F : \A Y \in F : Objective(df, penalty, Y) <= Objective(df, penalty, X)}

\* The results of the solver: without a time limit an optimal solution;
\* with a time limit an optimal solution, the best solution found so far,
\* or none.
CpSolve(df, penalty, max_time) ==
  {[status |-> "OPTIMAL", x |-> X] : X \in OptimalSets(df, penalty)}
  \cup
  (IF IsSet(max_time)
   THEN {[status |-> "FEASIBLE", x |-> X] : X \in FeasibleSets(df)}
        \cup {[status |-> "UNKNOWN", x |-> {}]}
   ELSE {})

\* PL.concat(df[i] for i in range(len(self.x)) if self.solver.value(self.x[i]))
SelectedRows(df, X) ==
  LET idx == SelectSeq([n \in 1..Len(df) |-> n], LAMBDA n : n \in X)
  IN [m \in 1..Len(idx) |-> df[idx[m]]]

\* --- algorithm LSA ---
\* The weights of the arcs are held doubled, so that penalty/2 is a whole
\* number of halves.
Arc(l, r, w2, row) == [l |-> l, r |-> r, w2 |-> w2, row |-> row]

\* rangedf(a0,b0,a1,b1,w): the cross join of range(a0,b0) and range(a1,b1)
rangedf(a0, b0, a1, b1, w2) ==
  {Arc(l, r, w2, Unset) : l \in a0..(b0 - 1), r \in a1..(b1 - 1)}

Maximum(a, b) == IF a >= b THEN a ELSE b

\* ArcTable without the arcs of cost 0 that make up for the difference of
\* the heights
ArcTableWithoutPadding(df, h0, h1, penalty) ==
  {Arc(df[n].rowid[1], df[n].rowid[2], 2 * df[n].weight, Some(df[n])) :
      n \in 1..Len(df)}
  \cup rangedf(Maximum(h0, h1), h0 + h1, 0, h1, penalty)
  \cup rangedf(0, h0, Maximum(h0, h1), h0 + h1, penalty)
  \cup {Arc(n, n, 0, Unset) : n \in Maximum(h0, h1)..(h0 + h1 - 1)}

\* the dataframe given to the assignment
ArcTable(df, h0, h1, penalty) ==
  {Arc(df[n].rowid[1], df[n].rowid[2], 2 * df[n].weight, Some(df[n])) :
      n \in 1..Len(df)}
  \cup (IF h0 < h1 THEN rangedf(h0, h1, 0, h1, 0)
        ELSE IF h1 < h0 THEN rangedf(0, h0, h1, h0, 0)
        ELSE {})
  \cup rangedf(Maximum(h0, h1), h0 + h1, 0, h1, penalty)
  \cup rangedf(0, h0, Maximum(h0, h1), h0 + h1, penalty)
  \cup {Arc(n, n, 0, Unset) : n \in Maximum(h0, h1)..(h0 + h1 - 1)}

\* (df.get_column(weight)*multiplier).cast(PL.Int64): the cast drops the
\* fraction
Cost(arc, multiplier) ==
  LET p == arc.w2 * multiplier
  IN IF p >= 0 THEN p \div 2 ELSE 0 - ((0 - p) \div 2)

\* the assignments of every left node i..n-1 to a right node that is not
\* used, along arcs; an assignment is the sequence of its arcs
RECURSIVE Assignments(_, _, _, _)
Assignments(arcs, i, n, used) ==
  IF i = n THEN {<< >>}
  ELSE UNION {
         {<< a >> \o rest : rest \in Assignments(arcs, i + 1, n, used \cup {a.r})}
         : a \in {b \in arcs : b.l = i /\ b.r \notin used}}

TotalCost(m, multiplier) ==
  SeqSum([n \in 1..Len(m) |-> Cost(m[n], multiplier)])

\* The results of SimpleLinearSumAssignment.solve(): an assignment of the
\* least total cost, or INFEASIBLE when there is no assignment.
LsaSolve(arcs, n, multiplier) ==
  LET all == Assignments(arcs, 0, n, {})
  IN IF all = {} THEN {[status |-> "INFEASIBLE", mate |-> << >>]}
     ELSE {[status |-> "OPTIMAL", mate |-> m] :
             m \in {m \in all : \A o \in all :
                      TotalCost(m, multiplier) <= TotalCost(o, multiplier)}}

\* the assignment joined with the dataframe, without the rows of null
\* identifiers, with the columns id_0, id_1 and the weight
MatedRows(mate) ==
  LET real == SelectSeq(mate, LAMBDA a : IsSet(a.row))
  IN [n \in 1..Len(real) |->
        [id |-> Get(real[n].row).id, rowid |-> << >>,
         weight |-> Get(real[n].row).weight]]

Raise(e) ==
  /\ raised' = e
  /\ UNCHANGED << multiplets, model_type, status >>

\* UsesCPSAT without the argument force_CPSAT
UsesCPSATManyGroupsOnly(force_CPSAT, k) == k >= 3

\* force_CPSAT or (len(self.part_keys)>=3): the algorithm is CPSAT
UsesCPSAT(force_CPSAT, k) == force_CPSAT \/ k >= 3

FindMultiplets(weight, multiplier, penalty, force_CPSAT, max_time) ==
  /\ call.op \in {"__init__", "init_edges"}
  /\ call' = [op |-> "find_multiplets", weight |-> weight,
              multiplier |-> multiplier, penalty |-> penalty,
              force_CPSAT |-> force_CPSAT, max_time |-> max_time]
  /\ UNCHANGED << init_OK, vertices, part_keys, was_col_warning,
                  col_warnings, edges, hyperedges >>
  /\ IF ~init_OK THEN Raise("multipletsError") /\ warned' = {}
     ELSE IF ~IsSet(hyperedges) THEN Raise("AttributeError") /\ warned' = {}
     ELSE IF weight \notin WeightColumns THEN Raise("NameError") /\ warned' = {}
     ELSE IF ~IsSet(penalty) /\ ~IsSet(MaxWeight(Get(hyperedges)))
     THEN Raise("TypeError") /\ warned' = {}
     ELSE
       LET df == Get(hyperedges)
           pen == IF IsSet(penalty) THEN Get(penalty) ELSE DefaultPenalty(df)
           k == Len(part_keys)
       IN IF UsesCPSAT(force_CPSAT, k)
          THEN \E res \in CpSolve(df, pen, max_time) :
                 LET w == (IF force_CPSAT /\ k >= 3 THEN {"force_CPSAT"} ELSE {})
                          \cup (IF IsSet(multiplier) THEN {"multiplier"} ELSE {})
                 IN /\ model_type' = "CPSAT"
                    /\ status' = res.status
                    /\ IF res.status \in {"OPTIMAL", "FEASIBLE"}
                       THEN /\ multiplets' = Some(SelectedRows(df, res.x))
                            /\ warned' = w \cup (IF res.x = {} THEN {"zero"} ELSE {})
                            /\ raised' = "none"
                       ELSE /\ multiplets' = Some(<< >>)
                            /\ warned' = w
                            /\ raised' = "multipletsErrorNoSolution"
          ELSE \E res \in LsaSolve(
                   ArcTable(df, Len(vertices[part_keys[1]]),
                            Len(vertices[part_keys[2]]), pen),
                   Len(vertices[part_keys[1]]) + Len(vertices[part_keys[2]]),
                   IF IsSet(multiplier) THEN Get(multiplier) ELSE 1) :
                 /\ model_type' = "LSA"
                 /\ status' = res.status
                 /\ warned' = IF IsSet(max_time) THEN {"max_time"} ELSE {}
                 /\ IF res.status = "OPTIMAL"
                    THEN /\ multiplets' = Some(MatedRows(res.mate))
                         /\ raised' = "none"
                    ELSE /\ multiplets' = Some(<< >>)
                         /\ raised' = "multipletsErrorNoSolution"

\* the arguments explored for the constructor: every dataframe with the
\* names of its columns, and two dataframes with a name that is no column
ConstructArgs ==
  {[df |-> df, id |-> "id", group |-> "group", check_too_big |-> c] :
      df \in Dfs, c \in BOOLEAN}
  \cup
  {[df |-> df, id |-> i, group |-> g, check_too_big |-> TRUE] :
      df \in {DfFour, << >>}, i \in IdNames, g \in GroupNames}

\* the arguments explored for init_edges: the expression with every filter,
\* and the other weights (the default weight 0 among them)
FilterArgs == {NoFilter, FilterLE(0), FilterLE(20), FilterLE(30)}
EdgeArgs ==
  {[weight |-> WeightExpr, filter |-> f, agg |-> "sum"] : f \in FilterArgs}
  \cup
  {[weight |-> WeightExpr, filter |-> f, agg |-> "max"] :
      f \in {FilterLE(0), FilterLE(30)}}
  \cup
  {[weight |-> WeightStr, filter |-> FilterLE(20), agg |-> "sum"],
   [weight |-> WeightInt(0), filter |-> NoFilter, agg |-> "sum"],
   [weight |-> WeightOther, filter |-> NoFilter, agg |-> "sum"],
   [weight |-> WeightOther, filter |-> FilterLE(20), agg |-> "max"]}

\* the arguments explored for find_multiplets: the defaults, a penalty, a
\* multiplier, a time limit, and the name of a column that is missing
FindArgs ==
  {[weight |-> "_weight", multiplier |-> Unset, penalty |-> p,
    force_CPSAT |-> f, max_time |-> Unset] :
      p \in {Unset, Some(100)}, f \in BOOLEAN}
  \cup
  {[weight |-> "_weight", multiplier |-> Some(2), penalty |-> Unset,
    force_CPSAT |-> f, max_time |-> Unset] : f \in BOOLEAN}
  \cup
  {[weight |-> "_weight", multiplier |-> Unset, penalty |-> Unset,
    force_CPSAT |-> f, max_time |-> Some(1)] : f \in BOOLEAN}
  \cup
  {[weight |-> "weight", multiplier |-> Unset, penalty |-> Unset,
    force_CPSAT |-> FALSE, max_time |-> Unset]}

Next ==
  \/ \E a \in ConstructArgs :
       Construct(a.df, a.id, a.group, a.check_too_big)
  \/ \E a \in EdgeArgs, ord \in EngineOrders :
       InitEdges(a.weight, a.filter, a.agg, ord)
  \/ \E a \in FindArgs :
       FindMultiplets(a.weight, a.multiplier, a.penalty, a.force_CPSAT,
                      a.max_time)

Spec == Init /\ [][Next]_vars

\* ------------------------------------------------------------------------
\* Properties
\* ------------------------------------------------------------------------
\* the last call was find_multiplets with the default arguments, but for
\* force_CPSAT
FoundBy(force_CPSAT) ==
  call = [op |-> "find_multiplets", weight |-> "_weight",
          multiplier |-> Unset, penalty |-> Unset,
          force_CPSAT |-> force_CPSAT, max_time |-> Unset]

\* the last call was find_multiplets and it returned a dataframe
Returned == call.op = "find_multiplets" /\ raised = "none"

\* no identifier is in two rows
VertexDisjoint(rows) ==
  \A m, n \in 1..Len(rows) :
    m # n => Range(rows[m].id) \cap Range(rows[n].id) = {}

\* the row is a row of the dataframe
RowOf(r, df) ==
  \E n \in 1..Len(df) : df[n].id = r.id /\ df[n].weight = r.weight

TotalWeight(rows) == SeqSum([n \in 1..Len(rows) |-> rows[n].weight])

\* the sets of rows of df without a common identifier
DisjointSubsets(df) ==
  {X \in SUBSET (1..Len(df)) :
     \A m, n \in X : m # n => Range(df[m].id) \cap Range(df[n].id) = {}}

MaxCardinality(df) ==
  CHOOSE c \in 0..Len(df) :
    /\ \E X \in DisjointSubsets(df) : Cardinality(X) = c
    /\ \A X \in DisjointSubsets(df) : Cardinality(X) <= c

\* rows has the most rows a set without a common identifier can have, and
\* the least total weight among the sets with that many rows
Lexicographic(df, rows) ==
  /\ Len(rows) = MaxCardinality(df)
  /\ \A X \in DisjointSubsets(df) :
       Cardinality(X) = MaxCardinality(df) =>
         TotalWeight(rows) <= SetSum([n \in 1..Len(df) |-> df[n].weight], X)

\* C1: a table that find_multiplets returns, by CPSAT or by LSA, holds only
\* rows of the table of hyperedges, and no identifier is in two of its rows.
C1_ReturnedIsDisjointSubset ==
  Returned =>
    /\ IsSet(multiplets)
    /\ \A n \in 1..Len(Get(multiplets)) :
         RowOf(Get(multiplets)[n], Get(hyperedges))
    /\ VertexDisjoint(Get(multiplets))

\* C1 witness: find_multiplets returned two rows.
C1_Witness ==
  Returned /\ IsSet(multiplets) /\ Len(Get(multiplets)) >= 2

\* C2 (as claimed): with two groups and the default arguments, LSA returns
\* a set of pairs of the maximal cardinality and, among those, of the
\* minimal total weight.
C2_AssignmentIsLexicographic ==
  (FoundBy(FALSE) /\ raised = "none" /\ model_type = "LSA") =>
    /\ VertexDisjoint(Get(multiplets))
    /\ Lexicographic(Get(hyperedges), Get(multiplets))

\* C3 (as claimed): on the CPSAT path without a penalty argument the
\* constant of the objective is large enough (above the maximal weight
\* times the size of the smallest group) for an optimal solution to have
\* the maximal cardinality and, among those, the minimal total weight.
C3_SetPackingIsLexicographic ==
  (\E f \in BOOLEAN : FoundBy(f)) /\ raised = "none" /\ model_type = "CPSAT"
    /\ status = "OPTIMAL" =>
    Lexicographic(Get(hyperedges), Get(multiplets))

\* C4 (as claimed): with two groups and the default arguments, the
\* solution of LSA has the cardinality and the total weight of every
\* solution CPSAT returns for the same table.
C4_StrategiesAgree ==
  (FoundBy(FALSE) /\ raised = "none" /\ model_type = "LSA") =>
    \A res \in CpSolve(Get(hyperedges), DefaultPenalty(Get(hyperedges)), Unset) :
      LET rows == SelectedRows(Get(hyperedges), res.x)
      IN /\ Len(rows) = Len(Get(multiplets))
         /\ TotalWeight(rows) = TotalWeight(Get(multiplets))

\* the last call was init_edges and it returned a dataframe
Built == call.op = "init_edges" /\ raised = "none"

\* the ways to take one person of every group from group g on
RECURSIVE TuplesFrom(_)
TuplesFrom(g) ==
  IF g > Len(part_keys) THEN {<< >>}
  ELSE {<< p >> \o t : p \in Range(vertices[part_keys[g]]),
                       t \in TuplesFrom(g + 1)}

\* the weight of the edge of two persons, as the last init_edges gave it
PairWeight(A, B) == Eval(col(call.weight), A, B)

\* every pair of persons of the tuple passes the filter
AllPairsPass(t) ==
  \A i, j \in 1..Len(t) : i < j => Passes(call.filter, PairWeight(t[i], t[j]))

\* the hyperedge of a tuple of persons
HyperedgeOf(t) ==
  LET pairs == GroupPairs(Len(t))
  IN [id |-> [g \in 1..Len(t) |-> t[g].id],
      weight |-> agg_horizontal(call.agg,
                   [n \in 1..Len(pairs) |->
                      PairWeight(t[pairs[n][1] + 1], t[pairs[n][2] + 1])])]

\* C5: the table init_edges returns has exactly one row for every tuple of
\* one person per group, in the order of the groups, of which every pair
\* passes the filter, and no other row; the weight of a row is the
\* aggregate of the weights of its pairs.
C5_HyperedgesAreCliques ==
  Built =>
    LET rows == Get(hyperedges)
        expected == {HyperedgeOf(t) : t \in {u \in TuplesFrom(1) : AllPairsPass(u)}}
    IN /\ {[id |-> rows[n].id, weight |-> rows[n].weight] : n \in 1..Len(rows)}
            = expected
       /\ Len(rows) = Cardinality(expected)

\* C5 witness: the first example of init_edges: of the eight tuples of six
\* persons in three groups, (2,3,5) and (2,4,5) pass the filter 30, with
\* the sum 60.
C5_Witness ==
  /\ Built
  /\ call.filter = FilterLE(30) /\ call.agg = "sum"
  /\ Cardinality(TuplesFrom(1)) = 8
  /\ Get(hyperedges) = << [id |-> << 2, 3, 5 >>, rowid |-> << >>, weight |-> 60],
                          [id |-> << 2, 4, 5 >>, rowid |-> << >>, weight |-> 60] >>

\* the rows are in the strictly ascending order of (id_0, id_1, ...)
StrictlyAscending(rows) ==
  \A n \in 1..(Len(rows) - 1) : LexLess(rows[n].id, rows[n + 1].id)

\* C6: the table of hyperedges is in the strictly ascending order of its
\* identifiers, and init_edges called again with the same arguments on the
\* session returns the same table, whatever the order of the rows the
\* joins of the engine produce.
C6_HyperedgesDeterministic ==
  Built =>
    /\ StrictlyAscending(Get(hyperedges))
    /\ \A ord \in EngineOrders :
         BuildHyperedges(AllEdges(call.weight, call.filter, ord), call.agg, ord)
           = Get(hyperedges)

\* C6 witness: init_edges returned two rows or more for a group that holds
\* its persons in the descending order of the identifiers.
C6_Witness ==
  /\ Built
  /\ Len(Get(hyperedges)) >= 2
  /\ \E k \in Range(part_keys) :
       Len(vertices[k]) >= 2 /\ vertices[k][1].id > vertices[k][2].id

\* the identifiers of the dataframe are not all unique and not null
IdsInvalid(df) ==
  \/ \E i \in 1..Len(df) : df[i].id = Null
  \/ \E i, j \in 1..Len(df) : i # j /\ df[i].id = df[j].id

GroupLabels(df) == {df[i].group : i \in 1..Len(df)}

\* the keys are the labels in ascending order, the null label last
SortedNoneLast(keys, labels) ==
  /\ Range(keys) = labels
  /\ \A i, j \in 1..Len(keys) :
       i < j => keys[i] # NoneLabel /\ (keys[j] = NoneLabel \/ keys[i] < keys[j])

\* the outcome of the constructor when must_fail tells the failures
ConstructOutcome(must_fail) ==
  call.op = "__init__" =>
    IF must_fail
    THEN raised = "multipletsError" /\ ~init_OK
    ELSE /\ raised = "none" /\ init_OK
         /\ Len(part_keys) >= 2
         /\ SortedNoneLast(part_keys, GroupLabels(call.df))

\* the failures of the constructor that C7 lists
ListedFailure ==
  \/ Len(call.df) = 0
  \/ call.id \notin Columns
  \/ IdsInvalid(call.df)
  \/ Cardinality(GroupLabels(call.df)) = 1
  \/ (Cardinality(GroupLabels(call.df)) > MaxParts /\ call.check_too_big)

\* C7 (as claimed): the constructor fails exactly when the dataframe is
\* empty, the identifier column is absent, the identifiers are not unique
\* and not null, there is one group, or there are more than 10 groups and
\* check_too_big; in every other case it succeeds with two groups or more,
\* sorted, the null label last.
C7_ConstructFailsAsListed == ConstructOutcome(ListedFailure)

\* C7 (amended): as claimed, and the constructor also fails when the group
\* column is absent.
C7_ConstructFails ==
  ConstructOutcome(ListedFailure \/ call.group \notin Columns)

\* C7 witness: the constructor succeeded on a dataframe that has the null
\* label before another label.
C7_Witness ==
  /\ call.op = "__init__" /\ init_OK
  /\ \E i, j \in 1..Len(call.df) :
       i < j /\ call.df[i].group = NoneLabel /\ call.df[j].group # NoneLabel

\* the table of hyperedges has no rows
NoHyperedges == init_OK /\ IsSet(hyperedges) /\ Get(hyperedges) = << >>

\* C8 (as claimed): with two groups and no hyperedge, find_multiplets with
\* the default arguments raises multipletsErrorNoSolution on the LSA path.
C8_EmptyAssignmentRaisesNoSolution ==
  (FoundBy(FALSE) /\ NoHyperedges /\ Len(part_keys) = 2) =>
    raised = "multipletsErrorNoSolution"

\* C9 (as claimed): on the CPSAT path with no hyperedge, find_multiplets
\* with the default arguments returns no rows and prints the warning of
\* zero multiplets.
C9_EmptySetPackingReturnsNoRows ==
  \A f \in BOOLEAN :
    (FoundBy(f) /\ NoHyperedges /\ (f \/ Len(part_keys) >= 3)) =>
      /\ raised = "none"
      /\ multiplets = Some(<< >>)
      /\ "zero" \in warned

\* C10 (as claimed): when the table has no column of the name given as
\* weight, find_multiplets goes on with a column of zeros and returns a
\* solution.
C10_MissingWeightColumnIsZeroFilled ==
  (call.op = "find_multiplets" /\ init_OK /\ IsSet(hyperedges)
     /\ call.weight \notin WeightColumns) =>
    raised = "none" /\ IsSet(multiplets)

\* the last call was find_multiplets and it went as far as the choice of
\* the algorithm (line 398): none of the exceptions of lines 391-397
ReachedSelection ==
  /\ call.op = "find_multiplets"
  /\ raised \notin {"multipletsError", "AttributeError", "NameError",
                    "TypeError"}

\* the algorithm of the strategy selection policy
SelectedStrategy ==
  IF Len(part_keys) = 2 /\ ~call.force_CPSAT THEN "LSA" ELSE "CPSAT"

\* C11: a call of find_multiplets that gets to the choice of the algorithm
\* uses LSA for exactly two groups unless force_CPSAT is given, and CPSAT
\* otherwise; force_CPSAT warns exactly when there are three groups or
\* more; a multiplier warns exactly on the CPSAT path and a max_time
\* exactly on the LSA path, and after either warning the solver has run
\* and the call returns a dataframe (on the CPSAT path: when no time limit
\* interrupts the search).
C11_StrategySelection ==
  ReachedSelection =>
    /\ model_type = SelectedStrategy
    /\ "force_CPSAT" \in warned <=>
          (call.force_CPSAT /\ Len(part_keys) >= 3)
    /\ "multiplier" \in warned <=>
          (IsSet(call.multiplier) /\ SelectedStrategy = "CPSAT")
    /\ "max_time" \in warned <=>
          (IsSet(call.max_time) /\ SelectedStrategy = "LSA")
    /\ ("force_CPSAT" \in warned \/ "multiplier" \in warned) =>
          /\ status \in {"OPTIMAL", "FEASIBLE", "UNKNOWN"}
          /\ ~IsSet(call.max_time) =>
                (status = "OPTIMAL" /\ raised = "none" /\ IsSet(multiplets))
    /\ "max_time" \in warned =>
          (status = "OPTIMAL" /\ raised = "none" /\ IsSet(multiplets))

\* two groups, force_CPSAT and a multiplier: CPSAT is used, the multiplier
\* is warned about and a table with rows is returned
C11_Witness ==
  /\ ReachedSelection
  /\ Len(part_keys) = 2
  /\ call.force_CPSAT
  /\ IsSet(call.multiplier)
  /\ model_type = "CPSAT"
  /\ warned = {"multiplier"}
  /\ raised = "none"
  /\ IsSet(multiplets)
  /\ Get(multiplets) # << >>

\* the weight given to init_edges is of a type _col does not support
Unsupported(weight) == weight.type \notin {"Expr", "str", "int"}

\* one step of a session, as the warn-once rule of _col wants it
WarnOnceStep ==
  /\ col_warnings' <= 1
  /\ (call'.op = "init_edges" /\ raised' = "none") =>
        IF Unsupported(call'.weight) /\ ~was_col_warning
        THEN /\ col_warnings' = col_warnings + 1
             /\ was_col_warning'
             /\ "_col" \in warned'
        ELSE /\ col_warnings' = col_warnings
             /\ was_col_warning' = was_col_warning
             /\ "_col" \notin warned'
  /\ (call'.op = "init_edges" /\ raised' # "none") =>
        UNCHANGED << col_warnings, was_col_warning >>
  /\ call'.op = "find_multiplets" =>
        UNCHANGED << col_warnings, was_col_warning >>
  /\ (was_col_warning /\ ~was_col_warning') => call'.op = "__init__"
  /\ call'.op = "__init__" => (~was_col_warning' /\ col_warnings' = 0)

\* C12: in a session the warning of _col about an unsupported type of
\* weight is printed at most once over all the calls of init_edges and all
\* their conversions (one for each pair of groups): the first conversion
\* of an unsupported weight prints it and sets the flag, every later one
\* is silent, and no call but the constructor clears the flag.
C12_WarnsOncePerSession == [][WarnOnceStep]_vars

\* a later call of init_edges with an unsupported weight, on three groups
\* or more, after the warning was printed: it printed nothing
C12_Witness ==
  /\ call.op = "init_edges"
  /\ raised = "none"
  /\ Unsupported(call.weight)
  /\ Len(part_keys) >= 3
  /\ col_warnings = 1
  /\ was_col_warning
  /\ warned = {}

\* the last call was find_multiplets and it built the dataframe of the
\* arcs for the assignment
BuiltAssignment == call.op = "find_multiplets" /\ model_type = "LSA"

\* the heights of the two groups and the penalty of the last call
Height(i) == Len(vertices[part_keys[i]])
PenaltyUsed ==
  IF IsSet(call.penalty) THEN Get(call.penalty)
  ELSE DefaultPenalty(Get(hyperedges))

\* the arcs make a square instance: every arc joins two of the nodes
\* 0..n-1
SquareInstance(arcs, n) ==
  \A a \in arcs : a.l \in 0..(n - 1) /\ a.r \in 0..(n - 1)

\* a perfect matching along the arcs that uses no real pair
LeavesAllUnmatched(arcs, n) ==
  Assignments({a \in arcs : ~IsSet(a.row)}, 0, n, {}) # {}

\* C13: whatever the heights of the two groups (1 or more) and the real
\* pairs (none included), the arcs given to the assignment make a square
\* instance of size n0+n1 that has a perfect matching, one of them leaving
\* every real vertex unmatched: the status is never INFEASIBLE and the
\* call returns.
C13_AssignmentIsFeasible ==
  BuiltAssignment =>
    LET n == Height(1) + Height(2)
        arcs == ArcTable(Get(hyperedges), Height(1), Height(2), PenaltyUsed)
    IN /\ Height(1) >= 1 /\ Height(2) >= 1
       /\ SquareInstance(arcs, n)
       /\ LeavesAllUnmatched(arcs, n)
       /\ status = "OPTIMAL"
       /\ raised = "none"

\* groups of different heights and no real pair: the assignment is found
\* and no row is returned
C13_Witness ==
  /\ BuiltAssignment
  /\ NoHyperedges
  /\ Height(1) # Height(2)
  /\ status = "OPTIMAL"
  /\ multiplets = Some(<< >>)

====
